---- MODULE Spec2Model ----
(***************************************************************************)
(* RedditArchiver.py: main -> scrape_url -> download_submission ->         *)
(* generate_html -> write_file, as a state machine.                        *)
(*                                                                         *)
(* A comment is identified by its id (1..N).  Node names and dictionary    *)
(* keys are the fullnames the program builds: <<"t3", 0>> is               *)
(* 't3_'+submission_id and <<"t1", c>> is 't1_'+comment.id.                *)
(***************************************************************************)
EXTENDS Integers, Sequences, FiniteSets, TLC

\* Largest number of comments of a thread.
MaxComments == 3

VARIABLES
    top,                    \* submission.comments after replace_more
    replies,                \* comment.replies of every comment
    parent_id,              \* comment.parent_id of every comment
    distinguished,          \* comment.distinguished
    is_submitter,           \* comment.is_submitter
    pc,                     \* position in main / scrape_url
    bound,                  \* local names of scrape_url that are bound
    comment_queue,          \* download_submission: comment_queue
    comment,                \* download_submission: comment (last dequeued)
    comments_index,         \* download_submission: name -> Node
    comments_forest,        \* download_submission: name -> attributes
    iter,                   \* generate_html: what PreOrderIter still yields
    previous_comment_level, \* generate_html
    html_comments,          \* generate_html: the markers emitted so far
    log,                    \* the messages myprint has printed, in order
    dequeues,               \* history: the comments popped from the queue
    calls                   \* history: the number of calls of generate_html

vars == <<top, replies, parent_id, distinguished, is_submitter, pc, bound,
          comment_queue, comment, comments_index, comments_forest, iter,
          previous_comment_level, html_comments, log, dequeues, calls>>

platform == <<top, replies, parent_id, distinguished, is_submitter>>
download == <<comment_queue, comment, comments_index, comments_forest, dequeues>>
render   == <<iter, previous_comment_level, html_comments>>

----------------------------------------------------------------------------
\* Names

Root == <<"t3", 0>>
T1(c) == <<"t1", c>>
NoNode == <<"None", 0>>
NoComment == 0
\* A fullname that names no comment of the thread.
Absent == <<"t1", 0>>

Ids == DOMAIN replies
N == Cardinality(Ids)

RECURSIVE SeqSum(_)
SeqSum(s) == IF s = <<>> THEN 0 ELSE Head(s) + SeqSum(Tail(s))

RECURSIVE Flatten(_)
Flatten(ss) == IF ss = <<>> THEN <<>> ELSE Head(ss) \o Flatten(Tail(ss))

----------------------------------------------------------------------------
\* anytree

\* Node(name, parent=None)
NewNode(name, parent) == [name |-> name, parent |-> parent, children |-> <<>>]

\* node.depth: the number of ancestors
RECURSIVE NodeDepth(_, _)
NodeDepth(index, name) ==
    IF index[name].parent = NoNode THEN 0
    ELSE 1 + NodeDepth(index, index[name].parent)

\* PreOrderIter(node): the node, then the pre-order of each child in order
RECURSIVE PreOrderIter(_, _)
PreOrderIter(index, name) ==
    <<name>> \o Flatten([i \in DOMAIN index[name].children |->
                            PreOrderIter(index, index[name].children[i])])

----------------------------------------------------------------------------
\* download_submission

\* Node('t1_'+comment.id, parent=comments_index[comment.parent_id]):
\* the new node is stored under its name and appended to its parent's children
AttachFirst(index, name, pid) ==
    (name :> NewNode(name, pid)) @@
    [index EXCEPT ![pid].children = <<name>> \o @]

AttachUnderRoot(index, name, pid) ==
    (name :> NewNode(name, Root)) @@
    [index EXCEPT ![Root].children = Append(@, name)]

AttachUnindexed(index, name, pid) ==
    [index EXCEPT ![pid].children = Append(@, name)]

Attach(index, name, pid) ==
    (name :> NewNode(name, pid)) @@
    [index EXCEPT ![pid].children = Append(@, name)]

\* comments_index[comment.parent_id]: the key, or KeyError
LookupOrRoot(index, pid) == IF pid \in DOMAIN index THEN pid ELSE Root

Lookup(index, pid) == IF pid \in DOMAIN index THEN pid ELSE NoNode

\* comment_queue.extend(comment.replies)
ExtendNothing(queue, rs) == queue

Extend(queue, rs) == queue \o rs

\* the entry of comments_forest
ForestEntry(c) == [d |-> distinguished[c], o |-> is_submitter[c]]

----------------------------------------------------------------------------
\* generate_html

\* previous_comment_level = 1
InitialLevel == 1

CloseMarker == [t |-> "close", id |-> NoNode, classes |-> <<>>]
OpenMarker(name, classes) == [t |-> "open", id |-> name, classes |-> classes]
BlockMarker(name) == [t |-> "block", id |-> name, classes |-> <<>>]

\* the number of '</div>' appended before a comment
ClosingCountNoOwn(previous, current) ==
    IF current <= previous THEN previous - current ELSE 0

ClosingCount(previous, current) ==
    IF current <= previous THEN previous - current + 1 ELSE 0

Closings(k) == [i \in 1..k |-> CloseMarker]

\* the colour class of a comment
ColourClassSubmitterFirst(d, o, level) ==
    IF o THEN "p"
    ELSE IF d = "admin" THEN "a"
    ELSE IF d = "moderator" THEN "m"
    ELSE IF level % 2 = 0 THEN "e"
    ELSE "o"

ColourClass(d, o, level) ==
    IF d = "admin" THEN "a"
    ELSE IF d = "moderator" THEN "m"
    ELSE IF o THEN "p"
    ELSE IF level % 2 = 0 THEN "e"
    ELSE "o"

\* 'l'+str(current_comment_level)[-1]
LevelClass(level) ==
    <<"l0", "l1", "l2", "l3", "l4", "l5", "l6", "l7", "l8", "l9">>[(level % 10) + 1]

\* classes, as the list of the class names put in the string
Classes(entry, level) ==
    (IF level = 1 THEN <<"f">> ELSE <<>>)
        \o <<ColourClass(entry.d, entry.o, level)>>
        \o <<LevelClass(level)>>

----------------------------------------------------------------------------
\* The threads the platform returns

Distinguished == {"None", "admin", "moderator"}

PName(p) == IF p = 0 THEN Root ELSE T1(p)

RECURSIVE ReachesPost(_, _, _)
ReachesPost(sp, c, fuel) ==
    IF c = 0 THEN TRUE
    ELSE IF fuel = 0 THEN FALSE
    ELSE ReachesPost(sp, sp[c], fuel - 1)

\* The forests on the comments 1..n: sp is the comment each one replies to
Forests(n) == {sp \in [1..n -> 0..n] : \A c \in 1..n : ReachesPost(sp, c, n)}

\* The orders in which the platform may list the comments
Orders(n) == {s \in [1..n -> 1..n] : \A i, j \in 1..n : s[i] = s[j] => i = j}

RepliesTo(sp, ord, p) == LET In(c) == sp[c] = p IN SelectSeq(ord, In)

\* The parent references: those of the forest, or one comment's reference
\* differing from the place the platform lists it at
ParentIds(sp, n) ==
    LET good == [c \in 1..n |-> PName(sp[c])]
    IN {good} \cup
       {[good EXCEPT ![c] = q] : c \in 1..n,
                                 q \in {Root, Absent} \cup {T1(x) : x \in 1..n}}

InitProgram ==
    /\ pc = "extract_id"
    /\ bound = {}
    /\ comment_queue = <<>>
    /\ comment = NoComment
    /\ comments_index = <<>>
    /\ comments_forest = <<>>
    /\ iter = <<>>
    /\ previous_comment_level = 0
    /\ html_comments = <<>>
    /\ log = <<>>
    /\ dequeues = <<>>
    /\ calls = 0

\* Any forest listed in any order, with or without an inconsistent parent
\* reference, no comment distinguished or by the submitter
InitThreads ==
    \E n \in 0..MaxComments : \E sp \in Forests(n) : \E ord \in Orders(n) :
        /\ top = RepliesTo(sp, ord, 0)
        /\ replies = [c \in 1..n |-> RepliesTo(sp, ord, c)]
        /\ parent_id \in ParentIds(sp, n)
        /\ distinguished = [c \in 1..n |-> "None"]
        /\ is_submitter = [c \in 1..n |-> FALSE]

\* A chain of replies (the depths 1..n) or a flat thread, consistent, with
\* any attributes
InitAttributes ==
    \E n \in 0..MaxComments :
    \E sp \in {[c \in 1..n |-> c - 1], [c \in 1..n |-> 0]} :
        /\ top = RepliesTo(sp, [i \in 1..n |-> i], 0)
        /\ replies = [c \in 1..n |-> RepliesTo(sp, [i \in 1..n |-> i], c)]
        /\ parent_id = [c \in 1..n |-> PName(sp[c])]
        /\ distinguished \in [1..n -> Distinguished]
        /\ is_submitter \in [1..n -> BOOLEAN]

Init == InitProgram /\ (InitThreads \/ InitAttributes)

----------------------------------------------------------------------------
\* main and scrape_url

myprint(message) == log' = Append(log, message)

\* main: submission_id = extract_id(url); None ends in SystemExit(1)
ExtractId ==
    /\ pc = "extract_id"
    /\ \E result \in {"id", "None"} :
        IF result = "None"
        THEN /\ myprint("invalid_reference")
             /\ pc' = "SystemExit"
        ELSE /\ pc' = "get_submission"
             /\ UNCHANGED log
    /\ UNCHANGED <<platform, bound, download, render, calls>>

\* the except clauses of scrape_url, and main's for any other exception
FetchRaised(exception) ==
    IF exception = "NotFound"
    THEN myprint("not_found") /\ pc' = "render_loop"
    ELSE IF exception = "Forbidden"
    THEN myprint("forbidden") /\ pc' = "render_loop"
    ELSE myprint("uncaught") /\ pc' = "raised"

FetchOutcomes == {"ok", "NotFound", "Forbidden", "ServerError"}

\* submission, nb_replies = get_submission(reddit, submission_id)
GetSubmission ==
    /\ pc = "get_submission"
    /\ \E outcome \in FetchOutcomes :
        IF outcome = "ok"
        THEN /\ bound' = bound \cup {"submission"}
             /\ myprint("found")
             /\ pc' = "replace_more"
        ELSE /\ FetchRaised(outcome)
             /\ UNCHANGED bound
    /\ UNCHANGED <<platform, download, render, calls>>

\* download_submission up to the queue loop
ReplaceMore ==
    /\ pc = "replace_more"
    /\ \E outcome \in FetchOutcomes :
        IF outcome = "ok"
        THEN /\ comments_index' = (Root :> NewNode(Root, NoNode))
             /\ comments_forest' = <<>>
             /\ comment_queue' = top
             /\ pc' = "queue"
             /\ UNCHANGED log
        ELSE /\ FetchRaised(outcome)
             /\ UNCHANGED <<comments_index, comments_forest, comment_queue>>
    /\ UNCHANGED <<platform, bound, comment, dequeues, render, calls>>

\* one turn of the queue loop
Dequeue ==
    /\ pc = "queue"
    /\ comment_queue # <<>>
    /\ LET c == Head(comment_queue)
           p == Lookup(comments_index, parent_id[c])
       IN /\ comment' = c
          /\ dequeues' = Append(dequeues, c)
          /\ IF p = NoNode
             THEN \* KeyError, caught by main
                  /\ comment_queue' = Tail(comment_queue)
                  /\ myprint("uncaught")
                  /\ pc' = "raised"
                  /\ UNCHANGED <<comments_index, comments_forest>>
             ELSE /\ comments_index' = Attach(comments_index, T1(c), p)
                  /\ comments_forest' = (T1(c) :> ForestEntry(c)) @@ comments_forest
                  /\ comment_queue' = Extend(Tail(comment_queue), replies[c])
                  /\ UNCHANGED <<pc, log>>
    /\ UNCHANGED <<platform, bound, render, calls>>

\* the queue is empty: download_submission returns
DownloadReturns ==
    /\ pc = "queue"
    /\ comment_queue = <<>>
    /\ bound' = bound \cup {"comments_index", "comments_forest"}
    /\ myprint("downloaded")
    /\ pc' = "render_loop"
    /\ UNCHANGED <<platform, download, render, calls>>

\* while True: try: html = generate_html(...)
CallGenerateHtml ==
    /\ pc = "render_loop"
    /\ IF {"submission", "comments_index", "comments_forest"} \subseteq bound
       THEN /\ calls' = calls + 1
            /\ iter' = PreOrderIter(comments_index, Root)
            /\ previous_comment_level' = InitialLevel
            /\ html_comments' = <<>>
            /\ pc' = "traverse"
            /\ UNCHANGED log
       ELSE \* UnboundLocalError, caught by main
            /\ myprint("uncaught")
            /\ pc' = "raised"
            /\ UNCHANGED <<calls, render>>
    /\ UNCHANGED <<platform, bound, download>>

\* one turn of the loop over PreOrderIter
Visit ==
    /\ pc = "traverse"
    /\ iter # <<>>
    /\ LET node == Head(iter)
           current_comment_level == NodeDepth(comments_index, node)
       IN /\ iter' = Tail(iter)
          /\ IF node[1] = "t3"
             THEN UNCHANGED <<previous_comment_level, html_comments>>
             ELSE /\ html_comments' =
                        html_comments
                        \o Closings(ClosingCount(previous_comment_level,
                                                 current_comment_level))
                        \o <<OpenMarker(node, Classes(comments_forest[node],
                                                      current_comment_level)),
                             BlockMarker(node)>>
                  /\ previous_comment_level' = current_comment_level
    /\ UNCHANGED <<platform, pc, bound, download, log, calls>>

\* except RecursionError: the tree is too deep for the iterator.  Whether the
\* interpreter's stack suffices is not decided by the program: it may fail at
\* any comment.
RecursionError ==
    /\ pc = "traverse"
    /\ iter # <<>>
    /\ Head(iter)[1] = "t1"
    /\ log' = log \o <<"over_depth", "over_depth_hint">>
    /\ pc' = "SystemExit"
    /\ UNCHANGED <<platform, bound, download, render, calls>>

\* else: break
AfterGenerateHtml == "write_file"

\* generate_html returns, scrape_url returns
GenerateHtmlReturns ==
    /\ pc = "traverse"
    /\ iter = <<>>
    /\ myprint("structured")
    /\ pc' = AfterGenerateHtml
    /\ UNCHANGED <<platform, bound, download, render, calls>>

\* main: os.makedirs and write_file
WriteFile ==
    /\ pc = "write_file"
    /\ \E outcome \in {"ok", "PermissionError", "OSError", "makedirs"} :
        IF outcome = "ok"
        THEN myprint("saved") /\ pc' = "returned"
        ELSE IF outcome = "PermissionError"
        THEN myprint("write_permission") /\ pc' = "SystemExit"
        ELSE IF outcome = "OSError"
        THEN myprint("write_uncaught") /\ pc' = "SystemExit"
        ELSE myprint("uncaught") /\ pc' = "raised"
    /\ UNCHANGED <<platform, bound, download, render, calls>>

Next ==
    \/ ExtractId
    \/ GetSubmission
    \/ ReplaceMore
    \/ Dequeue
    \/ DownloadReturns
    \/ CallGenerateHtml
    \/ Visit
    \/ RecursionError
    \/ GenerateHtmlReturns
    \/ WriteFile

Spec == Init /\ [][Next]_vars

\* The program is sequential: it takes its next step as long as it has one
FairSpec == Spec /\ WF_vars(Next)

----------------------------------------------------------------------------
\* What the properties speak of

Final == {"returned", "SystemExit", "raised"}

\* download_submission has returned / generate_html has returned
Downloaded == \E i \in DOMAIN log : log[i] = "downloaded"
Rendered == \E i \in DOMAIN log : log[i] = "structured"

Count(h, t) == LET Is(m) == m.t = t IN Len(SelectSeq(h, Is))
Prefix(h, i) == SubSeq(h, 1, i)

\* the positions of the opening markers, in order, and the comments opened
OpenPositions ==
    LET IsOpen(i) == html_comments[i].t = "open"
    IN SelectSeq([i \in DOMAIN html_comments |-> i], IsOpen)
\* the comments whose block has been emitted, in order
Blocks ==
    LET IsBlock(m) == m.t = "block"
        bs == SelectSeq(html_comments, IsBlock)
    IN [i \in DOMAIN bs |-> bs[i].id]

Depth(name) == NodeDepth(comments_index, name)

\* the place the platform lists a comment at
ListedUnder(c) ==
    IF \E i \in DOMAIN top : top[i] = c THEN Root
    ELSE T1(CHOOSE p \in Ids : \E i \in DOMAIN replies[p] : replies[p][i] = c)

\* every parent reference is the place the comment is listed at
Consistent == \A c \in Ids : parent_id[c] = ListedUnder(c)

\* every parent reference is the post or a comment of the thread
ParentsInThread == \A c \in Ids : parent_id[c] \in {Root} \cup {T1(x) : x \in Ids}

Names(s) == [i \in DOMAIN s |-> T1(s[i])]

Before(s, a, b) ==
    \E i, j \in DOMAIN s : i < j /\ s[i] = a /\ s[j] = b

Once(s, a) == Cardinality({i \in DOMAIN s : s[i] = a}) = 1

RECURSIVE IsAncestor(_, _)
\* a is a proper ancestor of b in the tree built
IsAncestor(a, b) ==
    /\ comments_index[b].parent # NoNode
    /\ \/ comments_index[b].parent = a
       \/ IsAncestor(a, comments_index[b].parent)

----------------------------------------------------------------------------
\* C1: after every opening marker the number of boundaries opened and not
\* yet closed is the depth of the comment opened, and at no point have more
\* closing markers than opening markers been emitted.
NestingMirrorsTree ==
    \A i \in DOMAIN html_comments :
        LET emitted == Prefix(html_comments, i)
        IN /\ Count(emitted, "close") <= Count(emitted, "open")
           /\ html_comments[i].t = "open" =>
                Count(emitted, "open") - Count(emitted, "close")
                    = Depth(html_comments[i].id)

FlatThread == N >= 1 /\ Len(top) = N /\ Consistent

\* C2: a flat thread of N >= 1 top-level comments is rendered with N-1
\* closing markers: none before the first comment, one before each later one.
FlatThreadClosings ==
    (FlatThread /\ Rendered) =>
        /\ Count(html_comments, "close") = N - 1
        /\ html_comments[1].t = "open"
        /\ \A k \in 2..Len(OpenPositions) :
              /\ html_comments[OpenPositions[k] - 1].t = "close"
              /\ html_comments[OpenPositions[k] - 2].t = "block"

ClosingsBetween(k) ==
    Count(SubSeq(html_comments, OpenPositions[k] + 1, OpenPositions[k + 1] - 1),
          "close")

----------------------------------------------------------------------------
ChildrenTotal ==
    SeqSum([i \in 1..(N + 1) |-> Len(comments_index[PName(i - 1)].children)])

\* C4: when every parent reference is the post or a comment of the thread
\* and the queue loop has finished, the index holds the root and one node per
\* comment, each comment is once among the children of its declared parent
\* and of no other node, and every depth is the parent's depth plus one, the
\* root being at depth 0 and without a parent.
TreeOfDeclaredParents ==
    (ParentsInThread /\ Downloaded) =>
        /\ DOMAIN comments_index = {Root} \cup {T1(c) : c \in Ids}
        /\ Cardinality(DOMAIN comments_index) = N + 1
        /\ DOMAIN comments_forest = {T1(c) : c \in Ids}
        /\ comments_index[Root].parent = NoNode
        /\ Depth(Root) = 0
        /\ ChildrenTotal = N
        /\ \A c \in Ids :
              /\ comments_index[T1(c)].name = T1(c)
              /\ comments_index[T1(c)].parent = parent_id[c]
              /\ Once(comments_index[parent_id[c]].children, T1(c))
              /\ Depth(T1(c)) = Depth(parent_id[c]) + 1

\* three comments in a tree of depth 2 at least, one of them attached under
\* a comment other than the one it is listed under
TreeOfDeclaredParentsWitness ==
    /\ ParentsInThread /\ Downloaded
    /\ N = 3
    /\ ~Consistent
    /\ \E c \in Ids : Depth(T1(c)) >= 2

ParentMissing ==
    /\ comment # NoComment
    /\ parent_id[comment] \notin DOMAIN comments_index

\* C5: a dequeued comment whose declared parent has no node ends
\* download_submission in an error: no node and no forest entry for it, it
\* is under no node, nothing more is dequeued, and no tree reaches
\* generate_html.
MissingParentIsFatal ==
    ParentMissing =>
        /\ pc = "raised"
        /\ log[Len(log)] = "uncaught"
        /\ dequeues[Len(dequeues)] = comment
        /\ T1(comment) \notin DOMAIN comments_index
        /\ T1(comment) \notin DOMAIN comments_forest
        /\ \A n \in DOMAIN comments_index :
              \A i \in DOMAIN comments_index[n].children :
                  comments_index[n].children[i] # T1(comment)
        /\ ~Downloaded
        /\ "comments_index" \notin bound
        /\ calls = 0
        /\ html_comments = <<>>

\* the error happens after another comment has been attached
MissingParentIsFatalWitness ==
    /\ ParentMissing
    /\ pc = "raised"
    /\ Len(dequeues) >= 2
    /\ comment_queue # <<>>

Category(message) ==
    CASE message = "invalid_reference" -> "invalid reference"
      [] message = "not_found" -> "not-found"
      [] message = "forbidden" -> "forbidden"
      [] message \in {"over_depth", "over_depth_hint"} -> "over-depth"
      [] message = "write_permission" -> "write-permission failure"
      [] message \in {"write_uncaught", "uncaught"} -> "generic failure"
      [] message = "saved" -> "success"
      [] OTHER -> "progress"

Outcomes == {Category(log[i]) : i \in DOMAIN log} \ {"progress"}

\* C6: every run ends with one outcome category reported; after not-found
\* or forbidden nothing else is reported and generate_html and write_file
\* do not run.
OneOutcomeReported ==
    pc \in Final =>
        /\ Cardinality(Outcomes) = 1
        /\ \A o \in {"not-found", "forbidden"} :
              o \in Outcomes => (Outcomes = {o} /\ calls = 0 /\ ~Rendered)

ChildrenInPlatformOrder ==
    Downloaded =>
        /\ \A n \in DOMAIN comments_index :
              \A a, b \in Ids :
                  Before(comments_index[n].children, T1(a), T1(b)) =>
                      /\ ~Before(top, b, a)
                      /\ \A p \in Ids : ~Before(replies[p], b, a)
        /\ Consistent =>
              /\ comments_index[Root].children = Names(top)
              /\ \A c \in Ids : comments_index[T1(c)].children = Names(replies[c])

BlocksInPreOrder ==
    Rendered =>
        /\ Len(Blocks) = N
        /\ \A c \in Ids : Once(Blocks, T1(c))
        /\ \A a, b \in Ids : IsAncestor(T1(a), T1(b)) => Before(Blocks, T1(a), T1(b))
        /\ \A n \in DOMAIN comments_index :
              \A a, b, d \in Ids :
                  /\ Before(comments_index[n].children, T1(a), T1(b))
                  /\ IsAncestor(T1(a), T1(d))
                  => Before(Blocks, T1(d), T1(b))
        /\ \A n \in DOMAIN comments_index :
              \A a, b \in Ids :
                  Before(comments_index[n].children, T1(a), T1(b))
                      => Before(Blocks, T1(a), T1(b))

\* C7: the children of a node are in the order the platform lists them, and
\* the blocks are emitted once each, a comment before its descendants and
\* the whole subtree of a comment before its next sibling.
PlatformOrderPreOrder == ChildrenInPlatformOrder /\ BlocksInPreOrder

\* a comment with a reply is followed by a sibling, and the platform lists
\* the siblings against the order of their ids
PlatformOrderPreOrderWitness ==
    /\ Rendered /\ Consistent
    /\ \E a, b, d \in Ids :
          /\ Before(top, a, b)
          /\ b < a
          /\ replies[a] = <<d>>
          /\ Blocks = <<T1(a), T1(d), T1(b)>>

----------------------------------------------------------------------------
Colours == {"a", "m", "p", "e", "o"}

ColoursOf(marker) ==
    LET IsColour(class) == class \in Colours IN SelectSeq(marker.classes, IsColour)

Opened == {i \in DOMAIN html_comments : html_comments[i].t = "open"}

StyleInputs(i) ==
    LET name == html_comments[i].id
    IN <<comments_forest[name].d, comments_forest[name].o, Depth(name) % 2>>

\* C8: every comment gets one colour class: 'a' for an admin, else 'm' for a
\* moderator, else 'p' for the submitter, else 'e' at even and 'o' at odd
\* depth; two comments equal in these three inputs get the same class.
ColourByPriority ==
    /\ \A i \in Opened :
          LET in == StyleInputs(i)
              colour == ColoursOf(html_comments[i])
          IN /\ Len(colour) = 1
             /\ in[1] = "admin" => colour = <<"a">>
             /\ (in[1] = "moderator") => colour = <<"m">>
             /\ (in[1] = "None" /\ in[2]) => colour = <<"p">>
             /\ (in[1] = "None" /\ ~in[2] /\ in[3] = 0) => colour = <<"e">>
             /\ (in[1] = "None" /\ ~in[2] /\ in[3] = 1) => colour = <<"o">>
    /\ \A i, j \in Opened :
          StyleInputs(i) = StyleInputs(j)
              => ColoursOf(html_comments[i]) = ColoursOf(html_comments[j])

\* an admin and a moderator who are the submitter, and two comments at the
\* depths 1 and 3 equal in the three inputs
ColourByPriorityWitness ==
    /\ Rendered
    /\ \E i, j \in Opened :
          /\ StyleInputs(i) = <<"admin", TRUE, 1>>
          /\ StyleInputs(j) = <<"moderator", TRUE, 0>>
    /\ \E i, j \in Opened :
          /\ i # j
          /\ StyleInputs(i) = StyleInputs(j)
          /\ Depth(html_comments[i].id) # Depth(html_comments[j].id)

\* C9: in a consistent thread a comment is in the queue only if it is a
\* top-level comment or its parent has been dequeued, the node of its parent
\* is in the index, and no attachment fails.
ParentsResolvedFirst ==
    (Consistent /\ pc \in {"queue", "raised"}) =>
        /\ \A i \in DOMAIN comment_queue :
              LET c == comment_queue[i]
              IN /\ parent_id[c] \in DOMAIN comments_index
                 /\ \/ \E k \in DOMAIN top : top[k] = c
                    \/ \E k \in DOMAIN dequeues :
                          /\ T1(dequeues[k]) = parent_id[c]
                          /\ \E r \in DOMAIN replies[dequeues[k]] :
                                replies[dequeues[k]][r] = c
                 /\ \A k \in DOMAIN dequeues : dequeues[k] # c
        /\ \A k \in DOMAIN dequeues :
              /\ T1(dequeues[k]) \in DOMAIN comments_index
              /\ \A j \in DOMAIN dequeues :
                    T1(dequeues[j]) = parent_id[dequeues[k]] => j < k
        /\ ~ParentMissing

\* a reply waits in the queue, its parent attached
ParentsResolvedFirstWitness ==
    /\ Consistent
    /\ pc = "queue"
    /\ \E i \in DOMAIN comment_queue :
          /\ parent_id[comment_queue[i]] # Root
          /\ parent_id[comment_queue[i]] \in DOMAIN comments_index
    /\ \E k \in DOMAIN dequeues : parent_id[dequeues[k]] # Root

LoopsEnd ==
    /\ Len(dequeues) <= N
    /\ \A i, j \in DOMAIN dequeues : dequeues[i] = dequeues[j] => i = j
    /\ \A i \in DOMAIN comment_queue :
          \A k \in DOMAIN dequeues : dequeues[k] # comment_queue[i]
    /\ Downloaded =>
          /\ comment_queue = <<>>
          /\ Len(dequeues) = N
          /\ {dequeues[k] : k \in DOMAIN dequeues} = Ids
    /\ calls <= 1
    /\ (Downloaded /\ pc \notin {"render_loop"}) => calls = 1
    /\ (Downloaded /\ pc \in Final) =>
          \/ Rendered
          \/ pc = "SystemExit" /\ log[Len(log)] = "over_depth_hint"

====